---- MODULE Spec2Model ----
(***************************************************************************)
(* Model of the AFFiNE MCP server (class AFFiNEMCPServer): the tool        *)
(* registry (CallToolRequestSchema handler), the resource resolver         *)
(* (ReadResourceRequestSchema handler, handleAFFiNEResource), the upstream *)
(* adapter (makeGraphQLRequest) and the operation handlers.                *)
(*                                                                         *)
(* One request is served at a time.  Every upstream call of a handler is   *)
(* one step: the call is appended to `calls` together with the reply the   *)
(* upstream gave, which is chosen nondeterministically (the upstream is an *)
(* external service).  Strings that the code inspects character by         *)
(* character (the search query) are sequences of characters.               *)
(***************************************************************************)
EXTENDS Integers, Sequences, FiniteSets, TLC

\* ---------------------------------------------------------------- bounds
MaxWs == 2          \* workspaces known upstream
MaxDocs == 2        \* documents per workspace
MaxHits == 2        \* search hits one upstream reply can carry
MaxLimit == 2       \* largest explicit limit argument

\* ------------------------------------------------------ program constants
DefaultSearchLimit == 10
DefaultListLimit == 50
DefaultCommentsLimitOfListing == DefaultListLimit   \* mutant: the listing's default
DefaultCommentsLimit == 10         \* getComments(docId, workspaceId, limit = 10)
DefaultAdvancedSearchLimit == 10   \* advancedSearch(..., limit = 10, ...)
DefaultHistoryLimit == 10          \* getDocumentHistory(..., before = null, limit = 10)
DefaultPublishModeEdgeless == "Edgeless"   \* mutant: the other mode is the default
DefaultPublishMode == "Page"       \* publishDocument(docId, workspaceId, mode = 'Page')
DefaultPermanently == FALSE        \* deleteBlob(workspaceId, blobKey, permanently = false)
\* mutant: getWorkspaceDocs asks for a page shorter than a workspace can be
WorkspaceDocsFirstShort == MaxDocs - 1

WorkspaceDocsFirst == 50

\* --------------------------------------------------------------- domains
Undefined == "undefined"
WsOrder == <<"w1", "w2", "w3", "w4">>
KnownWs == {WsOrder[i] : i \in 1..MaxWs}

Min(a, b) == IF a < b THEN a ELSE b

\* mutant: the quotient is rounded down
CeilDown(a, b) == a \div b

\* Math.ceil(a / b) for positive b
Ceil(a, b) == (a + b - 1) \div b

\* String.prototype.trim on a sequence of characters
RECURSIVE TrimLeft(_)
TrimLeft(s) == IF s # <<>> /\ Head(s) = " " THEN TrimLeft(Tail(s)) ELSE s

RECURSIVE TrimRight(_)
TrimRight(s) ==
    IF s # <<>> /\ s[Len(s)] = " " THEN TrimRight(SubSeq(s, 1, Len(s) - 1)) ELSE s

Trim(s) == TrimRight(TrimLeft(s))

\* the query strings the requests draw from: "", " ", "k", " k", "k "
Queries == {<<>>, <<" ">>, <<"k">>, <<" ", "k">>, <<"k", " ">>}

Has(r, f) == f \in DOMAIN r

\* ------------------------------------------------------------ tool names
ToolList ==
    << "search_documents", "get_document", "list_workspaces",
       "get_workspace_info", "publish_document", "unpublish_document",
       "create_comment", "get_comments", "resolve_comment", "delete_comment",
       "advanced_search", "get_document_history", "list_blobs", "delete_blob",
       "list_documents" >>

ListTools == {ToolList[i] : i \in 1..Len(ToolList)}

toolHandlers ==
    { "search_documents", "get_document", "list_workspaces",
      "get_workspace_info", "publish_document", "unpublish_document",
      "create_comment", "get_comments", "resolve_comment", "delete_comment",
      "advanced_search", "get_document_history", "list_blobs", "delete_blob",
      "list_documents" }

\* tools whose closure reads no field of args
NoArgTools == {"list_workspaces"}

\* tools whose closure reads args.workspaceId || this.workspaceId
WsTools == toolHandlers \ {"list_workspaces", "resolve_comment", "delete_comment"}

\* tools whose handler is one upstream call inside try/catch that re-wraps
WrappedTools ==
    { "publish_document", "unpublish_document", "create_comment",
      "get_comments", "resolve_comment", "delete_comment", "advanced_search",
      "get_document_history", "list_blobs", "delete_blob" }

\* properties every object literal inherits from Object.prototype: functions,
\* and __proto__, which is an object that cannot be called
InheritedFunctions == {"toString", "constructor"}
InheritedObjects == {"__proto__"}

\* toolHandlers[name]
LookupHandler(name) ==
    IF name \in toolHandlers THEN "own"
    ELSE IF name \in InheritedFunctions THEN "function"
    ELSE IF name \in InheritedObjects THEN "object"
    ELSE "undefined"

ToolNames == ListTools \cup {"does_not_exist"} \cup InheritedFunctions \cup InheritedObjects

VARIABLES
    processEnv,    \* process.env as the process was started with
    apiUrl,        \* this.apiUrl
    accessToken,   \* this.accessToken
    checked,       \* how run's connectivity test ended, "none" before it
    exitCode,      \* the statuses the process has ended with: none while it runs
    handlers,      \* request schemas a handler is registered for
    connected,     \* the server is connected to its stdio transport
    upDoc,         \* upstream: publication state of the document, if followed
    workspaceId,   \* this.workspaceId: the configured default workspace
    upDocs,        \* upstream: number of documents of each workspace
    req,           \* the request being served
    pc,            \* position of the handler serving it
    frame,         \* parameters and locals of the running handler
    calls,         \* upstream calls issued by startup, then by the request being
                   \* served (or the last one served), with replies
    result         \* what the request handler returned or threw

\* what startup sets and request handling never writes
startup == <<processEnv, apiUrl, accessToken, handlers, checked, connected, exitCode>>

vars == <<startup, upDoc, workspaceId, upDocs, req, pc, frame, calls, result>>

NoReq == [kind |-> "none"]
NoFrame == [fn |-> "none"]
NoResult == [ok |-> TRUE, payload |-> "none"]

\* ------------------------------------------------------------- results
NoError == [code |-> "none", kind |-> "none", call |-> 0, wrappedBy |-> "none"]

\* a value returned by a request handler
Ok(payload, ws, items, extra) ==
    [ok |-> TRUE, payload |-> payload, ws |-> ws, items |-> items,
     extra |-> extra, error |-> NoError]

\* an error thrown by a request handler
Thrown(e) ==
    [ok |-> FALSE, payload |-> "error", ws |-> Undefined, items |-> <<>>,
     extra |-> "", error |-> e]

\* new McpError(code, ...) raised by the server itself, not by an upstream call
McpError(code) == [code |-> code, kind |-> "none", call |-> 0, wrappedBy |-> "none"]

\* a JavaScript TypeError (new URL(uri) on an unparseable uri, args.x on undefined args)
TypeError == [code |-> "TypeError", kind |-> "none", call |-> 0, wrappedBy |-> "none"]

\* mutant: the catch rethrows the error it caught
RewrapNot(e, by) == e

\* catch (error) { throw new McpError(InternalError, `Failed to ...: ${error.message}`) }
Rewrap(e, by) == [e EXCEPT !.code = "InternalError", !.wrappedBy = by]

\* ------------------------------------------------------------- upstream
\* the HTTP reply to one POST /graphql
HttpReplies ==
    [net : BOOLEAN,                               \* fetch resolved
     status : {200, 201, 404, 500},               \* response.status
     body : {"{json}", "<html>"},                 \* the raw body
     hasErrors : BOOLEAN,                         \* the body has an "errors" member
     errors : {<<>>, <<"e1">>, <<"e1", "e2">>},   \* its messages
     data : {"absent", "null", "object"}]         \* the body's "data" member

\* response.ok
ResponseOk(status) == status \in 200..299

\* what makeGraphQLRequest reads of a reply
Envelope(reply) ==
    [net |-> reply.net,
     httpOk |-> ResponseOk(reply.status),
     json |-> reply.body = "{json}",              \* response.json() resolves
     errors |-> IF ~reply.hasErrors THEN "absent"
                ELSE IF reply.errors = <<>> THEN "empty" ELSE "some",
     hasData |-> reply.data = "object"]

Envelopes == { Envelope(reply) : reply \in HttpReplies }

\* the documents of workspace w, in upstream order
AllDocs(w) == [i \in 1..upDocs[w] |-> [ws |-> w, n |-> i]]

\* docs(pagination: {first, after}): the page after cursor `after` (0: from the start)
DocsPage(w, first, after) ==
    SubSeq(AllDocs(w), after + 1, Min(after + first, upDocs[w]))

\* the lists of workspaces the workspaces query can return
WsLists ==
    { SelectSeq(SubSeq(WsOrder, 1, MaxWs), LAMBDA w : w \in S) : S \in SUBSET KnownWs }

\* the document the upstream double follows, and whether a call is about it
FollowedDoc == "d1"
Followed(v) == upDoc.followed /\ Has(v, "docId") /\ v.docId = FollowedDoc

\* the upstream's document state after it answered the call `op(v)` with r: a
\* mutation it answered with success is applied
ApplyMutation(op, v, r) ==
    IF ~Followed(v) \/ ~r.ok THEN upDoc
    ELSE IF op = "publishDoc"
    THEN [upDoc EXCEPT !.public = TRUE, !.mode = v.mode, !.last = op]
    ELSE IF op = "revokePublicDoc"
    THEN [upDoc EXCEPT !.public = FALSE, !.last = op]
    ELSE upDoc

\* the data payloads the upstream can return for a query
UpstreamData(op, v) ==
    CASE op = "workspaces" -> {[workspaces |-> l] : l \in WsLists}
      [] op = "workspaceDocs" ->
            {[docs |-> DocsPage(v.workspaceId, WorkspaceDocsFirst, 0)]}
      [] op = "searchDocs" ->
            {[id |-> v.workspaceId,
              searchDocs |-> [i \in 1..n |-> [ws |-> v.workspaceId, n |-> i]]]
                : n \in 0..Min(v.limit, MaxHits)}
      [] op = "workspace" -> {[id |-> v.workspaceId]}
      [] op = "doc" ->
            IF Followed(v)
            THEN {[doc |-> [found |-> TRUE, hasTitle |-> t, public |-> upDoc.public]]
                    : t \in BOOLEAN}
            ELSE {[doc |-> [found |-> FALSE, hasTitle |-> FALSE, public |-> FALSE]]}
                 \cup {[doc |-> [found |-> TRUE, hasTitle |-> t, public |-> p]]
                         : t \in BOOLEAN, p \in BOOLEAN}
      [] op = "publishDoc" -> {[public |-> TRUE, mode |-> v.mode]}
      [] op = "revokePublicDoc" -> {[public |-> FALSE]}
      [] op = "docs" ->
            LET after == IF Has(v, "after") THEN v.after ELSE 0 IN
            {[docs |-> DocsPage(v.workspaceId, v.first, after),
              hasNextPage |-> after + v.first < upDocs[v.workspaceId],
              endCursor |-> Min(after + v.first, upDocs[v.workspaceId])]}
      [] OTHER -> {[done |-> TRUE]}

\* ------------------------------------------------------------- adapter
\* mutant: errors next to a usable data payload are ignored
AdapterKindDataWins(env) ==
    IF ~env.net THEN "Transport"
    ELSE IF ~env.httpOk THEN "HttpStatus"
    ELSE IF ~env.json THEN "MalformedResponse"
    ELSE IF env.errors # "absent" /\ ~env.hasData THEN "ApplicationErrors"
    ELSE IF ~env.hasData THEN "MalformedResponse"
    ELSE "none"

\* makeGraphQLRequest: the failure the reply is classified as, "none" if it succeeds
AdapterKind(env) ==
    IF ~env.net THEN "Transport"
    ELSE IF ~env.httpOk THEN "HttpStatus"
    ELSE IF ~env.json THEN "MalformedResponse"      \* response.json() throws
    ELSE IF env.errors # "absent" THEN "ApplicationErrors"
    ELSE IF ~env.hasData THEN "MalformedResponse"
    ELSE "none"

\* error.message as the adapter builds it, by its parts
ErrorMessage(reply) ==
    LET kind == AdapterKind(Envelope(reply))
        m == [text |-> "", status |-> 0, body |-> "", errors |-> <<>>] IN
    CASE kind = "Transport" -> [m EXCEPT !.text = "fetch failed"]
      [] kind = "HttpStatus" ->
            [m EXCEPT !.text = "HTTP", !.status = reply.status, !.body = reply.body]
      [] kind = "ApplicationErrors" ->
            [m EXCEPT !.text = "GraphQL Error", !.errors = reply.errors]
      [] kind = "MalformedResponse" ->
            [m EXCEPT !.text = IF reply.body = "{json}"
                               THEN "GraphQL response missing data field"
                               ELSE "Unexpected token"]
      [] OTHER -> m

\* mutant: a request that failed in transport is sent a second time
makeGraphQLRequestRetry(n, env, data) ==
    IF AdapterKind(env) = "none"
    THEN [ok |-> TRUE, data |-> data, error |-> NoError, fetches |-> 1]
    ELSE [ok |-> FALSE, data |-> <<>>,
          error |-> [code |-> "InternalError", kind |-> AdapterKind(env),
                     call |-> n, wrappedBy |-> "none"],
          fetches |-> IF env.net THEN 1 ELSE 2]

\* makeGraphQLRequest(query, variables) as the n-th call of the request: one
\* `await fetch(...)`, outside any loop, whose failure goes to the catch and is thrown
makeGraphQLRequest(n, env, data) ==
    IF AdapterKind(env) = "none"
    THEN [ok |-> TRUE, data |-> data, error |-> NoError, fetches |-> 1]
    ELSE [ok |-> FALSE, data |-> <<>>,
          error |-> [code |-> "InternalError", kind |-> AdapterKind(env),
                     call |-> n, wrappedBy |-> "none"],
          fetches |-> 1]

\* the upstream answers a workspace query with data only for a workspace it knows:
\* an undefined id (dropped by JSON.stringify, though declared String!) and an
\* unknown id are answered with an error
Answerable(v) == Has(v, "workspaceId") => v.workspaceId \in KnownWs

\* the replies the upstream can give to a query
Replies(op, v) ==
    { e \in Envelopes : Answerable(v) \/ AdapterKind(e) # "none" }

\* the outcomes makeGraphQLRequest can have as the n-th call of the request
Outcomes(n, op, v) ==
    { makeGraphQLRequest(n, e, d) :
        e \in Replies(op, v),
        d \in IF Answerable(v) THEN UpstreamData(op, v) ELSE {<<>>} }

\* the entry `calls` keeps of an upstream call and its outcome
Logged(op, v, r) ==
    [op |-> op, vars |-> v, ok |-> r.ok, data |-> r.data, fetches |-> r.fetches]

\* ------------------------------------------------------------- requests
EmptyArgs == [x \in {} |-> 0]

\* an optional field f with a value of S
Opt(f, S) == {EmptyArgs} \cup {f :> x : x \in S}

SearchArgs ==
    { a @@ b @@ c : a \in Opt("query", Queries),
                    b \in Opt("workspaceId", KnownWs),
                    c \in Opt("limit", 1..MaxLimit) }

ListArgs ==
    { a @@ b @@ c : a \in Opt("workspaceId", KnownWs),
                    b \in Opt("limit", 1..MaxLimit),
                    c \in Opt("cursor", 1..MaxDocs) }

WsArgs == Opt("workspaceId", KnownWs)

\* the argument objects a callTool request for `name` is drawn from
DocIds == {"d1", "d2"}
DocArgs == { a @@ [docId |-> d] : a \in WsArgs, d \in DocIds }

\* tools whose closure passes args.docId
DocTools == {"get_document", "publish_document", "unpublish_document",
             "create_comment", "get_comments", "get_document_history"}

\* tools whose closure passes args.limit to a handler behind try/catch
LimitTools == {"get_comments", "advanced_search", "get_document_history"}

ArgsFor(name) ==
    IF name = "search_documents" THEN SearchArgs
    ELSE IF name = "list_documents" THEN ListArgs
    ELSE IF name = "publish_document"
    THEN { a @@ b : a \in DocArgs, b \in Opt("mode", {"Page", "Edgeless"}) }
    ELSE IF name = "delete_blob"
    THEN { a @@ b : a \in WsArgs, b \in Opt("permanently", BOOLEAN) }
    ELSE IF name \in LimitTools
    THEN { a @@ b : a \in IF name \in DocTools THEN DocArgs ELSE WsArgs,
                    b \in Opt("limit", 1..MaxLimit) }
    ELSE IF name \in DocTools THEN DocArgs
    ELSE IF name \in WsTools THEN WsArgs
    ELSE IF name \in toolHandlers THEN {EmptyArgs}
    ELSE WsArgs \cup Opt("query", Queries)

\* a resource URI: its scheme as written, whether new URL(uri) accepts it (it
\* rejects, for instance, "https://" and "https://256.256.256.256/"), and for an
\* accepted one the parts the resolver reads; "none": a string without a scheme
Segments == KnownWs \cup {"docs", "members"}
PathParts ==
    {<<>>} \cup {<<a>> : a \in Segments} \cup {<<w, b>> : w \in KnownWs, b \in Segments}

Uris ==
    { [valid |-> TRUE, protocol |-> "affine:", hostname |-> "workspace",
       pathParts |-> pp] : pp \in PathParts }
    \cup { [valid |-> TRUE, protocol |-> "affine:", hostname |-> "search",
            pathParts |-> <<>>] @@ q : q \in Opt("q", Queries) }
    \cup { [valid |-> TRUE, protocol |-> p, hostname |-> h, pathParts |-> pp] @@ q :
            p \in {"affine:", "https:"}, h \in {"workspace", "search", "docs"},
            pp \in {<<>>, <<"w1">>, <<"w1", "docs">>}, q \in Opt("q", {<<"k">>}) }
    \cup { [valid |-> FALSE, protocol |-> p] : p \in {"affine:", "https:", "none"} }

\* args.workspaceId || this.workspaceId
OrDefault(args) ==
    IF Has(args, "workspaceId") THEN args.workspaceId ELSE workspaceId

\* the default of the limit parameter of the handler of a tool of LimitTools
DefaultLimit(name) ==
    CASE name = "get_comments" -> DefaultCommentsLimit
      [] name = "advanced_search" -> DefaultAdvancedSearchLimit
      [] name = "get_document_history" -> DefaultHistoryLimit

\* the call the closure toolHandlers[name] makes: the handler and its parameters
\* after the parameter defaults
ToolFrame(name, args) ==
    CASE name = "search_documents" ->
            [fn |-> "searchDocuments", via |-> "tool",
             workspaceId |-> OrDefault(args),
             limit |-> IF Has(args, "limit") THEN args.limit ELSE DefaultSearchLimit]
            @@ (IF Has(args, "query") THEN [query |-> args.query] ELSE EmptyArgs)
      [] name = "get_document" ->
            [fn |-> "getDocument", workspaceId |-> OrDefault(args),
             docId |-> args.docId]
      [] name = "list_workspaces" -> [fn |-> "listWorkspaces"]
      [] name = "get_workspace_info" ->
            [fn |-> "getWorkspaceInfo", workspaceId |-> OrDefault(args)]
      [] name = "list_documents" ->
            [fn |-> "listDocuments", workspaceId |-> OrDefault(args),
             limit |-> IF Has(args, "limit") THEN args.limit ELSE DefaultListLimit,
             cursor |-> IF Has(args, "cursor") THEN args.cursor ELSE 0]
      [] OTHER ->
            [fn |-> "wrapped", tool |-> name]
            @@ (IF name \in WsTools THEN [workspaceId |-> OrDefault(args)]
                ELSE EmptyArgs)
            @@ (IF name \in DocTools THEN [docId |-> args.docId] ELSE EmptyArgs)
            @@ (IF name \in LimitTools
                THEN [limit |-> IF Has(args, "limit") THEN args.limit
                                ELSE DefaultLimit(name)]
                ELSE EmptyArgs)
            @@ (IF name = "publish_document"
                THEN [mode |-> IF Has(args, "mode") THEN args.mode
                               ELSE DefaultPublishMode]
                ELSE EmptyArgs)
            @@ (IF name = "delete_blob"
                THEN [permanently |-> IF Has(args, "permanently") THEN args.permanently
                                      ELSE DefaultPermanently]
                ELSE EmptyArgs)

\* the request handler returns v / throws e
Return(v) == /\ result' = v
             /\ pc' = "done"

\* mutant: the query is not trimmed before the emptiness test
IsBlankNoTrim(f) == ~Has(f, "query") \/ f.query = <<>>

\* !query || !query.trim()
IsBlank(f) == ~Has(f, "query") \/ f.query = <<>> \/ Trim(f.query) = <<>>

\* a truthy workspace id
Given(w) == w # Undefined

\* process.env: the variables validateEnvironment reads ("" is a set but empty
\* one); the endpoint is left to its default
Environments ==
    [AFFINE_API_URL : {Undefined},
     AFFINE_ACCESS_TOKEN : {Undefined, "", "token"},
     AFFINE_WORKSPACE_ID : KnownWs \cup {Undefined}]

\* process.env.AFFINE_API_URL || 'https://app.affine.pro'
DefaultApiUrl == "https://app.affine.pro"

\* process.exit(1), and the status of a process ended by an uncaught exception
ExitFailure == 1

\* the request schemas setupHandlers registers a handler for
RequestSchemas == {"ListResources", "ReadResource", "ListTools", "CallTool"}

\* the upstream's publication state of a document (with the last mutation it
\* applied); Untracked: not followed
Untracked == [followed |-> FALSE]
DocStates == { [followed |-> TRUE, public |-> p, mode |-> m, last |-> l] :
                 p \in BOOLEAN, m \in {"Page", "Edgeless"},
                 l \in {"none", "publishDoc", "revokePublicDoc"} }

TypeOK ==
    /\ processEnv \in Environments
    /\ apiUrl \in {Undefined, DefaultApiUrl}
    /\ accessToken \in {Undefined, "", "token"}
    /\ handlers \subseteq RequestSchemas
    /\ checked \in {"none", "ok", "failed"}
    /\ connected \in BOOLEAN
    /\ exitCode \in {<<>>, <<ExitFailure>>}
    /\ upDoc \in DocStates \cup {Untracked}
    /\ workspaceId \in KnownWs \cup {Undefined}
    /\ upDocs \in [KnownWs -> 0..MaxDocs]
    /\ pc \in {"constructor", "crashed", "run", "exited", "idle", "done",
               "handleAFFiNEResource", "resourceDocs",
               "resourceInfo", "resourceFallback", "searchDocuments",
               "searchListing", "searchScoped", "searchEnumerate", "searchLoop",
               "getDocument", "listWorkspaces", "getWorkspaceInfo",
               "listDocuments", "wrapped"}
    /\ result.ok \in BOOLEAN

\* the process before `new AFFiNEMCPServer()`
InitProcess ==
    /\ processEnv \in Environments
    /\ apiUrl = Undefined
    /\ accessToken = Undefined
    /\ workspaceId = Undefined
    /\ handlers = {}
    /\ checked = "none"
    /\ connected = FALSE
    /\ exitCode = <<>>
    /\ upDocs \in [KnownWs -> 0..MaxDocs]
    /\ req = NoReq
    /\ pc = "constructor"
    /\ frame = [fn |-> "constructor", step |-> 1]
    /\ calls = <<>>
    /\ result = NoResult

Init == InitProcess /\ upDoc = Untracked

\* ------------------------------------------------------------- startup
\* mutant: the handlers are registered before the environment is validated
ConstructorStepsHandlersFirst == <<"setupHandlers", "validateEnvironment">>

\* the constructor's calls after new Server(...), in order
ConstructorSteps == <<"validateEnvironment", "setupHandlers">>

\* the constructor moves on to its next call, or returns to the module's run()
ConstructorNext ==
    IF frame.step < Len(ConstructorSteps)
    THEN pc' = pc /\ frame' = [frame EXCEPT !.step = @ + 1]
    ELSE pc' = "run" /\ frame' = [fn |-> "run", step |-> 1]

\* new Error(message): thrown at startup, outside every request
Error(kind) == [code |-> "Error", kind |-> kind, call |-> 0, wrappedBy |-> "none"]

\* validateEnvironment: read process.env, throw if there is no access token
ValidateEnvironment ==
    /\ pc = "constructor"
    /\ ConstructorSteps[frame.step] = "validateEnvironment"
    /\ apiUrl' = IF processEnv.AFFINE_API_URL = Undefined THEN DefaultApiUrl
                 ELSE processEnv.AFFINE_API_URL
    /\ accessToken' = processEnv.AFFINE_ACCESS_TOKEN
    /\ workspaceId' = processEnv.AFFINE_WORKSPACE_ID
    /\ IF accessToken' \in {Undefined, ""}
       THEN /\ result' = Thrown(Error("MissingCredential"))
            /\ pc' = "crashed"
            /\ exitCode' = <<ExitFailure>>
            /\ UNCHANGED frame
       ELSE ConstructorNext /\ UNCHANGED <<result, exitCode>>
    /\ UNCHANGED <<processEnv, handlers, checked, connected, upDoc, upDocs, req, calls>>

\* setupHandlers: four setRequestHandler calls, none of which calls upstream
SetupHandlers ==
    /\ pc = "constructor"
    /\ ConstructorSteps[frame.step] = "setupHandlers"
    /\ handlers' = RequestSchemas
    /\ ConstructorNext
    /\ UNCHANGED <<processEnv, apiUrl, accessToken, checked, connected, exitCode,
                   upDoc, workspaceId, upDocs, req, calls, result>>

\* mutant: the transport is connected before the connectivity test
RunStepsConnectFirst == <<"connect", "testConnectivity">>

\* the awaits of run(), in order
RunSteps == <<"testConnectivity", "connect">>

\* run moves on to its next await, or has returned: the server is running
RunNext ==
    IF frame.step < Len(RunSteps)
    THEN pc' = pc /\ frame' = [frame EXCEPT !.step = @ + 1]
    ELSE pc' = "idle" /\ frame' = NoFrame

\* run: await this.testConnectivity(), one currentUser query; a failure is
\* rethrown as a new Error, caught by run and ends the process: process.exit(1)
TestConnectivity ==
    /\ pc = "run"
    /\ RunSteps[frame.step] = "testConnectivity"
    /\ \E r \in Outcomes(Len(calls) + 1, "currentUser", EmptyArgs) :
          /\ calls' = Append(calls, Logged("currentUser", EmptyArgs, r))
          /\ IF r.ok
             THEN /\ checked' = "ok"
                  /\ RunNext
                  /\ UNCHANGED <<result, exitCode>>
             ELSE /\ checked' = "failed"
                  /\ result' = Thrown([r.error EXCEPT !.code = "Error",
                                                      !.wrappedBy = "testConnectivity"])
                  /\ pc' = "exited"
                  /\ exitCode' = <<ExitFailure>>
                  /\ UNCHANGED frame
    /\ UNCHANGED <<processEnv, apiUrl, accessToken, handlers, connected, upDoc,
                   workspaceId, upDocs, req>>

\* run: await this.server.connect(transport); requests are served once run is done
Connect ==
    /\ pc = "run"
    /\ RunSteps[frame.step] = "connect"
    /\ connected' = TRUE
    /\ RunNext
    /\ UNCHANGED <<processEnv, apiUrl, accessToken, handlers, checked, exitCode,
                   upDoc, workspaceId, upDocs, req, calls, result>>

\* ------------------------------------------------------------- handlers

\* mutant: the workspace of a call becomes the default of the calls after it
CallToolSticky(name, hasArgs, args) ==
    /\ pc = "idle"
    /\ req' = [kind |-> "callTool", name |-> name, hasArgs |-> hasArgs, args |-> args]
    /\ CASE LookupHandler(name) = "undefined" ->
                Return(Thrown(McpError("MethodNotFound"))) /\ UNCHANGED frame
         [] LookupHandler(name) = "function" ->
                Return(Ok("inherited", Undefined, <<>>, "")) /\ UNCHANGED frame
         [] LookupHandler(name) = "object" ->
                Return(Thrown(TypeError)) /\ UNCHANGED frame
         [] OTHER ->
                IF ~hasArgs /\ name \notin NoArgTools
                THEN Return(Thrown(TypeError)) /\ UNCHANGED frame
                ELSE /\ frame' = ToolFrame(name, args)
                     /\ pc' = frame'.fn
                     /\ UNCHANGED result
    /\ calls' = <<>>
    /\ workspaceId' = OrDefault(args)
    /\ UNCHANGED <<startup, upDoc, upDocs>>

\* CallToolRequestSchema handler: look the name up and call the closure
CallTool(name, hasArgs, args) ==
    /\ pc = "idle"
    /\ req' = [kind |-> "callTool", name |-> name, hasArgs |-> hasArgs, args |-> args]
    /\ CASE LookupHandler(name) = "undefined" ->
                Return(Thrown(McpError("MethodNotFound"))) /\ UNCHANGED frame
         [] LookupHandler(name) = "function" ->
                Return(Ok("inherited", Undefined, <<>>, "")) /\ UNCHANGED frame
         [] LookupHandler(name) = "object" ->
                Return(Thrown(TypeError)) /\ UNCHANGED frame
         [] OTHER ->
                IF ~hasArgs /\ name \notin NoArgTools
                THEN Return(Thrown(TypeError)) /\ UNCHANGED frame
                ELSE /\ frame' = ToolFrame(name, args)
                     /\ pc' = frame'.fn
                     /\ UNCHANGED result
    /\ calls' = <<>>
    /\ UNCHANGED <<startup, upDoc, workspaceId, upDocs>>

\* a resource uri as the string listResources builds, a sequence of its pieces
\* `affine://workspace/${workspace.id}`
WorkspaceUri(id) == <<"affine:", "//", "workspace", "/", id>>

\* mutant: the document listing is advertised under a collection of its own
WorkspaceDocsUriOwnHost(id) == <<"affine:", "//", "docs", "/", id>>

\* `affine://workspace/${workspace.id}/docs`
WorkspaceDocsUri(id) == <<"affine:", "//", "workspace", "/", id, "/", "docs">>

\* 'affine://search'
SearchUri == <<"affine:", "//", "search">>

\* the resources array: two entries per workspace in enumeration order, then search
RECURSIVE ListedResources(_)
ListedResources(workspaces) ==
    IF workspaces = <<>> THEN <<SearchUri>>
    ELSE <<WorkspaceUri(Head(workspaces)), WorkspaceDocsUri(Head(workspaces))>>
         \o ListedResources(Tail(workspaces))

\* new URL(uri) and url.pathname.split('/').filter(Boolean): the scheme, the host
\* after "//" (none without it) and the non-empty path segments; a string that
\* does not begin with a scheme is not a URL
ParseUrl(uri) ==
    IF uri = <<>> \/ uri[1] \notin {"affine:", "https:"}
    THEN [valid |-> FALSE, protocol |-> "none"]
    ELSE LET authority == Len(uri) >= 3 /\ uri[2] = "//"
             rest == IF authority THEN SubSeq(uri, 4, Len(uri))
                     ELSE SubSeq(uri, 2, Len(uri))
         IN  [valid |-> TRUE,
              protocol |-> uri[1],
              hostname |-> IF authority THEN uri[3] ELSE "",
              pathParts |-> SelectSeq(rest, LAMBDA x : x \notin {"/", "//", ""})]

\* ListResourcesRequestSchema handler: await this.getWorkspaces(), then build the
\* resources of each workspace and the search resource; an error is rethrown
ListResources ==
    /\ pc = "idle"
    /\ req' = [kind |-> "listResources"]
    /\ \E r \in Outcomes(1, "workspaces", EmptyArgs) :
          /\ calls' = <<Logged("workspaces", EmptyArgs, r)>>
          /\ IF r.ok
             THEN Return(Ok("resources", Undefined, ListedResources(r.data.workspaces), ""))
             ELSE Return(Thrown(r.error))
    /\ UNCHANGED <<startup, upDoc, workspaceId, upDocs, frame>>

\* url.protocol !== 'affine:' rejects the uri
SchemeRecognised(uri) == uri.protocol = "affine:"

\* ReadResourceRequestSchema handler: parse the uri and check the scheme
ReadResource(uri) ==
    /\ pc = "idle"
    /\ req' = [kind |-> "readResource", uri |-> uri]
    /\ IF ~uri.valid THEN Return(Thrown(TypeError))
       ELSE IF ~SchemeRecognised(uri) THEN Return(Thrown(McpError("InvalidRequest")))
       ELSE pc' = "handleAFFiNEResource" /\ UNCHANGED result
    /\ calls' = <<>>
    /\ UNCHANGED <<startup, upDoc, workspaceId, upDocs, frame>>

\* the request handler has returned or thrown: the server is ready for the next
Respond ==
    /\ pc = "done"
    /\ pc' = "idle"
    /\ req' = NoReq
    /\ frame' = NoFrame
    /\ calls' = <<>>
    /\ result' = NoResult
    /\ UNCHANGED <<startup, upDoc, workspaceId, upDocs>>

\* ------------------------------------------------------ resource resolver
\* mutant: the configured default workspace takes precedence over the uri's
ResourceWorkspaceIdDefault(uri) ==
    IF workspaceId # Undefined THEN workspaceId ELSE uri.pathParts[1]

\* const workspaceId = pathParts[0]
ResourceWorkspaceId(uri) == uri.pathParts[1]

\* mutant: the search resource searches the configured default workspace
ResourceSearchFrameDefault(query) ==
    [fn |-> "searchDocuments", via |-> "resource", query |-> query,
     workspaceId |-> workspaceId, limit |-> DefaultSearchLimit]

\* this.searchDocuments(query): workspaceId = null, limit = 10
ResourceSearchFrame(query) ==
    [fn |-> "searchDocuments", via |-> "resource", query |-> query,
     workspaceId |-> Undefined, limit |-> DefaultSearchLimit]

\* mutant: every sub-collection selects the document listing
ResourceBranchAnySub(pathParts) ==
    IF Len(pathParts) > 1 THEN "resourceDocs" ELSE "resourceInfo"

\* if (pathParts[1] === 'docs') { ... } else { ... }
ResourceBranch(pathParts) ==
    IF Len(pathParts) > 1 /\ pathParts[2] = "docs"
    THEN "resourceDocs" ELSE "resourceInfo"

\* handleAFFiNEResource up to its first await: choose the branch by hostname and path
HandleAFFiNEResource ==
    /\ pc = "handleAFFiNEResource"
    /\ LET uri == req.uri
           query == IF Has(uri, "q") THEN uri.q ELSE <<>>
       IN  IF uri.hostname = "workspace" /\ Len(uri.pathParts) > 0
           THEN /\ frame' = [fn |-> "handleAFFiNEResource",
                             workspaceId |-> ResourceWorkspaceId(uri)]
                /\ pc' = ResourceBranch(uri.pathParts)
                /\ UNCHANGED result
           ELSE IF uri.hostname = "search"
           THEN IF Trim(query) = <<>>
                THEN Return(Ok("usage", Undefined, <<>>, "")) /\ UNCHANGED frame
                ELSE /\ frame' = ResourceSearchFrame(query)
                     /\ pc' = "searchDocuments"
                     /\ UNCHANGED result
           ELSE Return(Thrown(McpError("InvalidRequest"))) /\ UNCHANGED frame
    /\ UNCHANGED <<startup, upDoc, workspaceId, upDocs, req, calls>>

\* affine://workspace/{id}/docs: await this.getWorkspaceDocs(workspaceId)
ResourceDocs ==
    /\ pc = "resourceDocs"
    /\ LET v == [workspaceId |-> frame.workspaceId] IN
       \E r \in Outcomes(Len(calls) + 1, "workspaceDocs", v) :
          /\ calls' = Append(calls, Logged("workspaceDocs", v, r))
          /\ IF r.ok THEN Return(Ok("docs", Undefined, r.data.docs, ""))
             ELSE Return(Thrown(r.error))
    /\ UNCHANGED <<startup, upDoc, workspaceId, upDocs, req, frame>>

\* affine://workspace/{id}: try { await this.getWorkspaceInfo(workspaceId) }
ResourceInfo ==
    /\ pc = "resourceInfo"
    /\ LET v == [workspaceId |-> frame.workspaceId] IN
       \E r \in Outcomes(Len(calls) + 1, "workspace", v) :
          /\ calls' = Append(calls, Logged("workspace", v, r))
          /\ IF r.ok
             THEN Return(Ok("workspaceInfo", r.data.id, <<>>, "")) /\ UNCHANGED frame
             ELSE /\ frame' = [error |-> r.error] @@ frame
                  /\ pc' = "resourceFallback"
                  /\ UNCHANGED result
    /\ UNCHANGED <<startup, upDoc, workspaceId, upDocs, req>>

\* mutant: the listed documents are returned as the docs resource returns them
FallbackResultBare(f, r) ==
    IF r.ok THEN Ok("docs", Undefined, r.data.docs, "") ELSE Thrown(f.error)

\* mutant: the listing's error is thrown
FallbackResultDocsError(f, r) ==
    IF r.ok
    THEN Ok("fallback", f.workspaceId, r.data.docs,
            "Could not access workspace info, but found documents:")
    ELSE Thrown(r.error)

\* the fallback's outcome: the documents with the note, or the detail call's error
FallbackResult(f, r) ==
    IF r.ok
    THEN Ok("fallback", f.workspaceId, r.data.docs,
            "Could not access workspace info, but found documents:")
    ELSE Thrown(f.error)

\* catch (error) { try { await this.getWorkspaceDocs(workspaceId) } catch { throw error } }
ResourceFallback ==
    /\ pc = "resourceFallback"
    /\ LET v == [workspaceId |-> frame.workspaceId] IN
       \E r \in Outcomes(Len(calls) + 1, "workspaceDocs", v) :
          /\ calls' = Append(calls, Logged("workspaceDocs", v, r))
          /\ Return(FallbackResult(frame, r))
    /\ UNCHANGED <<startup, upDoc, workspaceId, upDocs, req, frame>>

\* --------------------------------------------------------------- search
\* what the caller of searchDocuments makes of its return value: the tool handler
\* returns it, the resolver puts it in the contents of the resource
Wrap(f, v) ==
    IF f.via = "resource" /\ v.ok THEN Ok("searchResource", v.ws, v.items, v.payload) ELSE v

\* searchDocuments up to its first await: choose the branch by query and workspace
SearchDocuments ==
    /\ pc = "searchDocuments"
    /\ IF IsBlank(frame)
       THEN IF Given(frame.workspaceId)
            THEN pc' = "searchListing" /\ UNCHANGED result
            ELSE Return(Wrap(frame, Ok("guidance", Undefined, <<>>, "")))
       ELSE IF Given(frame.workspaceId)
            THEN pc' = "searchScoped" /\ UNCHANGED result
            ELSE pc' = "searchEnumerate" /\ UNCHANGED result
    /\ UNCHANGED <<startup, upDoc, workspaceId, upDocs, req, frame, calls>>

\* blank query, workspace given: await this.getWorkspaceDocs(workspaceId)
SearchListing ==
    /\ pc = "searchListing"
    /\ LET v == [workspaceId |-> frame.workspaceId] IN
       \E r \in Outcomes(Len(calls) + 1, "workspaceDocs", v) :
          /\ calls' = Append(calls, Logged("workspaceDocs", v, r))
          /\ IF r.ok
             THEN Return(Wrap(frame, Ok("listing", frame.workspaceId, r.data.docs, "")))
             ELSE Return(Thrown(r.error))
    /\ UNCHANGED <<startup, upDoc, workspaceId, upDocs, req, frame>>

\* query and workspace given: one searchDocs call
SearchScoped ==
    /\ pc = "searchScoped"
    /\ LET v == [workspaceId |-> frame.workspaceId, keyword |-> frame.query,
                 limit |-> frame.limit] IN
       \E r \in Outcomes(Len(calls) + 1, "searchDocs", v) :
          /\ calls' = Append(calls, Logged("searchDocs", v, r))
          /\ IF r.ok
             THEN Return(Wrap(frame, Ok("scoped", Undefined, r.data.searchDocs, "")))
             ELSE Return(Thrown(r.error))
    /\ UNCHANGED <<startup, upDoc, workspaceId, upDocs, req, frame>>

\* query given, no workspace: const workspaces = await this.getWorkspaces()
SearchEnumerate ==
    /\ pc = "searchEnumerate"
    /\ \E r \in Outcomes(Len(calls) + 1, "workspaces", EmptyArgs) :
          /\ calls' = Append(calls, Logged("workspaces", EmptyArgs, r))
          /\ IF r.ok
             THEN /\ frame' = [workspaces |-> r.data.workspaces, i |-> 1,
                               allResults |-> <<>>] @@ frame
                  /\ pc' = "searchLoop"
                  /\ UNCHANGED result
             ELSE Return(Thrown(r.error)) /\ UNCHANGED frame
    /\ UNCHANGED <<startup, upDoc, workspaceId, upDocs, req>>

\* mutant: a workspace without hits is pushed too
CollectAll(all, r) ==
    IF r.ok
    THEN Append(all, [workspaceId |-> r.data.id, docs |-> r.data.searchDocs])
    ELSE all

\* if (data.workspace.searchDocs.length > 0) allResults.push(...); catch: skip
Collect(all, r) ==
    IF r.ok /\ Len(r.data.searchDocs) > 0
    THEN Append(all, [workspaceId |-> r.data.id, docs |-> r.data.searchDocs])
    ELSE all

\* one iteration of for (const workspace of workspaces) { try { ... } catch { continue } }
SearchLoop ==
    /\ pc = "searchLoop"
    /\ frame.i <= Len(frame.workspaces)
    /\ LET v == [workspaceId |-> frame.workspaces[frame.i], keyword |-> frame.query,
                 limit |-> Ceil(frame.limit, Len(frame.workspaces))] IN
       \E r \in Outcomes(Len(calls) + 1, "searchDocs", v) :
          /\ calls' = Append(calls, Logged("searchDocs", v, r))
          /\ frame' = [frame EXCEPT !.i = @ + 1, !.allResults = Collect(@, r)]
    /\ UNCHANGED <<startup, upDoc, workspaceId, upDocs, req, pc, result>>

\* mutant: no results is an error
JoinResultThrows(f) ==
    IF Len(f.allResults) = 0 THEN Thrown(McpError("InternalError"))
    ELSE Ok("results", Undefined, f.allResults, "")

\* if (allResults.length === 0) the zero-results text, else the grouped results
JoinResult(f) ==
    IF Len(f.allResults) = 0 THEN Ok("noResults", Undefined, <<>>, "")
    ELSE Ok("results", Undefined, f.allResults, "")

\* after the loop: return the joined result
SearchJoin ==
    /\ pc = "searchLoop"
    /\ frame.i > Len(frame.workspaces)
    /\ Return(Wrap(frame, JoinResult(frame)))
    /\ UNCHANGED <<startup, upDoc, workspaceId, upDocs, req, frame, calls>>

\* mutant: the document id is not sent
GetDocumentVarsNoDoc(f) == [workspaceId |-> f.workspaceId]

\* the variables of the metadata query: { workspaceId, docId }
GetDocumentVars(f) == [workspaceId |-> f.workspaceId, docId |-> f.docId]

\* mutant: no test for a missing document, as in the older copy src/index.js,
\* where `doc.title` then throws a TypeError
GetDocumentResultNoNullTest(f, r) ==
    IF ~r.ok THEN Thrown(r.error)
    ELSE IF ~r.data.doc.found THEN Thrown(TypeError)
    ELSE Ok("document", f.workspaceId, <<>>,
            [hasTitle |-> r.data.doc.hasTitle,
             public |-> r.data.doc.public,
             content |-> "unavailable"])

\* what getDocument returns for the outcome r of the metadata query: its error,
\* the not-found text, or the metadata followed by the fixed text that says the
\* content is not available
GetDocumentResult(f, r) ==
    IF ~r.ok THEN Thrown(r.error)
    ELSE IF ~r.data.doc.found THEN Ok("notFound", f.workspaceId, <<>>, "")
    ELSE Ok("document", f.workspaceId, <<>>,
            [hasTitle |-> r.data.doc.hasTitle,
             public |-> r.data.doc.public,
             content |-> "unavailable"])

\* getDocument: the metadata query is its only call; contentQuery is built after
\* it and never sent
GetDocument ==
    /\ pc = "getDocument"
    /\ LET v == GetDocumentVars(frame) IN
       \E r \in Outcomes(Len(calls) + 1, "doc", v) :
          /\ calls' = Append(calls, Logged("doc", v, r))
          /\ Return(GetDocumentResult(frame, r))
    /\ UNCHANGED <<startup, upDoc, workspaceId, upDocs, req, frame>>

\* listWorkspaces: await this.getWorkspaces()
ListWorkspaces ==
    /\ pc = "listWorkspaces"
    /\ \E r \in Outcomes(Len(calls) + 1, "workspaces", EmptyArgs) :
          /\ calls' = Append(calls, Logged("workspaces", EmptyArgs, r))
          /\ IF r.ok THEN Return(Ok("workspaces", Undefined, r.data.workspaces, ""))
             ELSE Return(Thrown(r.error))
    /\ UNCHANGED <<startup, upDoc, workspaceId, upDocs, req, frame>>

\* getWorkspaceInfo called by the get_workspace_info tool
GetWorkspaceInfo ==
    /\ pc = "getWorkspaceInfo"
    /\ LET v == [workspaceId |-> frame.workspaceId] IN
       \E r \in Outcomes(Len(calls) + 1, "workspace", v) :
          /\ calls' = Append(calls, Logged("workspace", v, r))
          /\ IF r.ok THEN Return(Ok("workspaceInfo", r.data.id, <<>>, ""))
             ELSE Return(Thrown(r.error))
    /\ UNCHANGED <<startup, upDoc, workspaceId, upDocs, req, frame>>

\* mutant: the cursor is not passed on
ListDocumentsVarsFirstPage(f) ==
    [workspaceId |-> f.workspaceId, first |-> f.limit]

\* const pagination = { first: limit }; if (cursor) pagination.after = cursor
ListDocumentsVars(f) ==
    [workspaceId |-> f.workspaceId, first |-> f.limit]
    @@ (IF f.cursor # 0 THEN [after |-> f.cursor] ELSE EmptyArgs)

\* listDocuments: one page of docs(pagination: {first: limit, after: cursor})
ListDocuments ==
    /\ pc = "listDocuments"
    /\ LET v == ListDocumentsVars(frame) IN
       \E r \in Outcomes(Len(calls) + 1, "docs", v) :
          /\ calls' = Append(calls, Logged("docs", v, r))
          /\ IF ~r.ok THEN Return(Thrown(Rewrap(r.error, "listDocuments")))
             ELSE IF Len(r.data.docs) = 0
             THEN Return(Ok("noDocuments", frame.workspaceId, <<>>, ""))
             ELSE Return(Ok("documents", frame.workspaceId, r.data.docs,
                            [hasNextPage |-> r.data.hasNextPage,
                             endCursor |-> IF r.data.hasNextPage
                                           THEN r.data.endCursor ELSE 0]))
    /\ UNCHANGED <<startup, upDoc, workspaceId, upDocs, req, frame>>

\* the GraphQL field the handler of a tool of WrappedTools asks for
WrappedOp(tool) ==
    CASE tool = "publish_document" -> "publishDoc"
      [] tool = "unpublish_document" -> "revokePublicDoc"
      [] tool = "create_comment" -> "createComment"
      [] tool = "get_comments" -> "comments"
      [] tool = "resolve_comment" -> "resolveComment"
      [] tool = "delete_comment" -> "deleteComment"
      [] tool = "advanced_search" -> "search"
      [] tool = "get_document_history" -> "histories"
      [] tool = "list_blobs" -> "blobs"
      [] tool = "delete_blob" -> "deleteBlob"

\* mutant: deleteBlob always asks for a soft delete
WrappedVarsSoftDelete(f) ==
    CASE f.tool = "publish_document" ->
            [docId |-> f.docId, workspaceId |-> f.workspaceId, mode |-> f.mode]
      [] f.tool \in {"unpublish_document", "create_comment"} ->
            [docId |-> f.docId, workspaceId |-> f.workspaceId]
      [] f.tool = "get_comments" ->
            [workspaceId |-> f.workspaceId, docId |-> f.docId, first |-> f.limit]
      [] f.tool \in {"resolve_comment", "delete_comment"} -> [id |-> "c1"]
      [] f.tool = "advanced_search" ->
            [workspaceId |-> f.workspaceId, limit |-> f.limit]
      [] f.tool = "get_document_history" ->
            [workspaceId |-> f.workspaceId, guid |-> f.docId, take |-> f.limit]
      [] f.tool = "list_blobs" -> [workspaceId |-> f.workspaceId]
      [] f.tool = "delete_blob" ->
            [workspaceId |-> f.workspaceId, key |-> "k1", permanently |-> FALSE]

\* the variables of the handler's one call (of createComment's and
\* resolveComment's `input` and advancedSearch's `input.options.pagination`: the
\* members that depend on the parameters modelled)
WrappedVars(f) ==
    CASE f.tool = "publish_document" ->
            [docId |-> f.docId, workspaceId |-> f.workspaceId, mode |-> f.mode]
      [] f.tool \in {"unpublish_document", "create_comment"} ->
            [docId |-> f.docId, workspaceId |-> f.workspaceId]
      [] f.tool = "get_comments" ->
            [workspaceId |-> f.workspaceId, docId |-> f.docId, first |-> f.limit]
      [] f.tool \in {"resolve_comment", "delete_comment"} -> [id |-> "c1"]
      [] f.tool = "advanced_search" ->
            [workspaceId |-> f.workspaceId, limit |-> f.limit]
      [] f.tool = "get_document_history" ->
            [workspaceId |-> f.workspaceId, guid |-> f.docId, take |-> f.limit]
      [] f.tool = "list_blobs" -> [workspaceId |-> f.workspaceId]
      [] f.tool = "delete_blob" ->
            [workspaceId |-> f.workspaceId, key |-> "k1",
             permanently |-> f.permanently]

\* mutant: a failed call is reported as a success
WrappedResultSwallows(f, r) ==
    Ok(f.tool, Undefined, <<>>,
       IF f.tool = "delete_blob" THEN [permanently |-> f.permanently] ELSE "")

\* what the handler returns for the outcome r of its call: the text on success
\* (deleteBlob's names the flag), the re-wrapped error on failure
WrappedResult(f, r) ==
    IF r.ok
    THEN Ok(f.tool, Undefined, <<>>,
            IF f.tool = "delete_blob" THEN [permanently |-> f.permanently] ELSE "")
    ELSE Thrown(Rewrap(r.error, f.tool))

\* the handlers that are one upstream call inside try { } catch { throw new McpError }
Wrapped ==
    /\ pc = "wrapped"
    /\ LET op == WrappedOp(frame.tool)
           v == WrappedVars(frame) IN
       \E r \in Outcomes(Len(calls) + 1, op, v) :
          /\ calls' = Append(calls, Logged(op, v, r))
          /\ upDoc' = ApplyMutation(op, v, r)
          /\ Return(WrappedResult(frame, r))
    /\ UNCHANGED <<startup, workspaceId, upDocs, req, frame>>

\* ------------------------------------------------------- specification
Next ==
    \/ ValidateEnvironment
    \/ SetupHandlers
    \/ TestConnectivity
    \/ Connect
    \/ \E name \in ToolNames, hasArgs \in BOOLEAN :
          \E args \in IF hasArgs THEN ArgsFor(name) ELSE {EmptyArgs} :
             CallTool(name, hasArgs, args)
    \/ ListResources
    \/ \E uri \in Uris : ReadResource(uri)
    \/ HandleAFFiNEResource
    \/ ResourceDocs
    \/ ResourceInfo
    \/ ResourceFallback
    \/ SearchDocuments
    \/ SearchListing
    \/ SearchScoped
    \/ SearchEnumerate
    \/ SearchLoop
    \/ SearchJoin
    \/ GetDocument
    \/ ListWorkspaces
    \/ GetWorkspaceInfo
    \/ ListDocuments
    \/ Wrapped
    \/ Respond

Spec == Init /\ [][Next]_vars

\* --------------------------------- the server against an upstream double
\* the upstream applies the publish and revoke mutations it answers with success
\* to the document FollowedDoc, private at first, and reports its state
InitDouble ==
    /\ InitProcess
    /\ upDoc = [followed |-> TRUE, public |-> FALSE, mode |-> "Page", last |-> "none"]

DoubleTools == {"publish_document", "unpublish_document", "get_document"}

NextDouble ==
    \/ ValidateEnvironment
    \/ SetupHandlers
    \/ TestConnectivity
    \/ Connect
    \/ \E name \in DoubleTools : \E args \in ArgsFor(name) : CallTool(name, TRUE, args)
    \/ Wrapped
    \/ GetDocument
    \/ Respond

DoubleSpec == InitDouble /\ [][NextDouble]_vars

\* ------------------------------------------------ the adapter on its own
\* one call of makeGraphQLRequest, answered by any reply
InitAdapter ==
    /\ processEnv = [AFFINE_API_URL |-> Undefined, AFFINE_ACCESS_TOKEN |-> "token",
                     AFFINE_WORKSPACE_ID |-> Undefined]
    /\ apiUrl = DefaultApiUrl
    /\ accessToken = "token"
    /\ checked = "ok"
    /\ exitCode = <<>>
    /\ workspaceId = Undefined
    /\ handlers = RequestSchemas
    /\ connected = TRUE
    /\ upDoc = Untracked
    /\ upDocs = [w \in KnownWs |-> 0]
    /\ req = NoReq
    /\ pc = "adapter"
    /\ frame \in { [fn |-> "makeGraphQLRequest", reply |-> reply] : reply \in HttpReplies }
    /\ calls = <<>>
    /\ result = NoResult

AdapterCall ==
    /\ pc = "adapter"
    /\ LET r == makeGraphQLRequest(1, Envelope(frame.reply), frame.reply.data) IN
          /\ calls' = Append(calls, Logged("query", EmptyArgs, r))
          /\ result' = r @@ [message |-> ErrorMessage(frame.reply)]
    /\ pc' = "adapterDone"
    /\ UNCHANGED <<startup, upDoc, workspaceId, upDocs, req, frame>>

AdapterSpec == InitAdapter /\ [][AdapterCall]_vars

\* ---------------------------------------------------------------- claims
Range(q) == {q[i] : i \in 1..Len(q)}

\* the request has been served: `result` is what its handler returned or threw
Served == pc = "done"

\* a query that is absent, empty or made of spaces only (stated without trim)
BlankQuery(f) == ~Has(f, "query") \/ \A i \in 1..Len(f.query) : f.query[i] = " "

ToolRequest == req.kind = "callTool"

\* the workspace a tool closure passes: args.workspaceId, else the configured one
EffectiveWs == IF Has(req.args, "workspaceId") THEN req.args.workspaceId ELSE workspaceId
ResourceRequest == req.kind = "readResource" /\ req.uri.valid

\* the request is readResource(affine://workspace/{id}...) with an id
WorkspaceResource ==
    /\ ResourceRequest
    /\ req.uri.protocol = "affine:"
    /\ req.uri.hostname = "workspace"
    /\ Len(req.uri.pathParts) > 0

\* the request is readResource(affine://workspace/{id})
WorkspaceDetailResource == WorkspaceResource /\ Len(req.uri.pathParts) = 1

\* the request is readResource(affine://search...)
SearchResource ==
    /\ ResourceRequest
    /\ req.uri.protocol = "affine:"
    /\ req.uri.hostname = "search"

\* searchDocuments is running (or has run) with a non-blank query and no workspace,
\* and the workspaces have been enumerated
FanOut ==
    /\ frame.fn = "searchDocuments"
    /\ ~BlankQuery(frame)
    /\ frame.workspaceId = Undefined
    /\ Len(calls) >= 1
    /\ calls[1].ok

\* the groups the fan-out must return: one per workspace whose search call, among
\* calls[from..], succeeded with at least one hit, in call order
RECURSIVE Hits(_, _)
Hits(log, from) ==
    IF from > Len(log) THEN <<>>
    ELSE IF log[from].ok /\ Len(log[from].data.searchDocs) > 0
         THEN <<[workspaceId |-> log[from].vars.workspaceId,
                 docs |-> log[from].data.searchDocs]>> \o Hits(log, from + 1)
         ELSE Hits(log, from + 1)

\* C1: a callTool whose name is not advertised by listTools fails with
\* MethodNotFound and issues no upstream call
C1_UnknownToolRejected ==
    (Served /\ ToolRequest /\ req.name \notin ListTools)
        => /\ ~result.ok
           /\ result.error.code = "MethodNotFound"
           /\ calls = <<>>

\* C2: resolving workspace/{id} issues the listing call iff the detail call failed;
\* a successful detail call is the only call and its result is returned; a failed
\* detail call followed by a successful listing returns the documents with the note
\* and the workspace id
C2_FallbackIffDetailFails ==
    WorkspaceDetailResource =>
        /\ \A i \in 1..Len(calls) :
              /\ calls[i].op = "workspaceDocs" <=> i = 2
              /\ i = 2 => calls[1].op = "workspace" /\ ~calls[1].ok
        /\ Len(calls) <= 2
        /\ Served =>
              /\ Len(calls) >= 1
              /\ calls[1].op = "workspace"
              /\ ~calls[1].ok => Len(calls) = 2
              /\ calls[1].ok =>
                    /\ Len(calls) = 1
                    /\ result.ok
                    /\ result.payload = "workspaceInfo"
                    /\ result.ws = calls[1].data.id
              /\ (Len(calls) = 2 /\ calls[2].ok) =>
                    /\ result.ok
                    /\ result.payload = "fallback"
                    /\ result.ws = req.uri.pathParts[1]
                    /\ result.items = calls[2].data.docs
                    /\ result.extra # ""

C2_Witness ==
    /\ Served
    /\ WorkspaceDetailResource
    /\ Len(calls) = 2
    /\ calls[2].ok
    /\ result.payload = "fallback"
    /\ Len(result.items) > 0

\* C3: when the detail call and the fallback listing both fail, the error thrown is
\* the detail call's error
C3_BothFailDetailError ==
    (Served /\ WorkspaceDetailResource /\ Len(calls) = 2 /\ ~calls[2].ok)
        => /\ ~result.ok
           /\ result.error.call = 1
           /\ result.error = frame.error
           /\ result.error.wrappedBy = "none"

C3_Witness ==
    /\ Served
    /\ WorkspaceDetailResource
    /\ Len(calls) = 2
    /\ ~calls[1].ok
    /\ ~calls[2].ok
    /\ ~result.ok

\* C4: in the fan-out search every enumerated workspace is searched whatever calls
\* fail, the call does not fail, and the result holds exactly the hits of the
\* workspaces whose search succeeded with at least one hit
C4_FanOutSkipsFailures ==
    (Served /\ FanOut) =>
        LET workspaces == calls[1].data.workspaces IN
        /\ result.ok
        /\ Len(calls) = 1 + Len(workspaces)
        /\ \A i \in 1..Len(workspaces) :
              /\ calls[i + 1].op = "searchDocs"
              /\ calls[i + 1].vars.workspaceId = workspaces[i]
        /\ result.items = Hits(calls, 2)
        /\ \A g \in Range(result.items) : \A d \in Range(g.docs) : d.ws = g.workspaceId

C4_Witness ==
    /\ Served
    /\ FanOut
    /\ Len(calls) = 3
    /\ ~calls[2].ok
    /\ calls[3].ok
    /\ Len(result.items) = 1
    /\ result.items[1].workspaceId = calls[3].vars.workspaceId

\* C5: if every per-workspace search fails or returns no hits, the fan-out returns
\* the zero-results payload and does not fail
C5_FanOutZeroResults ==
    ( /\ Served
      /\ FanOut
      /\ \A i \in 2..Len(calls) : ~calls[i].ok \/ Len(calls[i].data.searchDocs) = 0 )
        => /\ result.ok
           /\ \/ result.payload = "noResults"
              \/ result.payload = "searchResource" /\ result.extra = "noResults"
           /\ result.items = <<>>

C5_Witness ==
    /\ Served
    /\ FanOut
    /\ Len(calls) = 3
    /\ ~calls[2].ok
    /\ ~calls[3].ok
    /\ result.ok

\* C6: searchDocuments with a blank query and no workspace id issues no upstream
\* call and returns the guidance payload
C6_BlankNoWorkspaceGuidance ==
    (frame.fn = "searchDocuments" /\ BlankQuery(frame) /\ frame.workspaceId = Undefined)
        => /\ calls = <<>>
           /\ pc \in {"searchDocuments", "done"}
           /\ Served => result.ok /\ result.payload = "guidance"

C6_Witness ==
    /\ Served
    /\ frame.fn = "searchDocuments"
    /\ Has(frame, "query")
    /\ frame.query = <<" ">>
    /\ frame.workspaceId = Undefined
    /\ result.payload = "guidance"

\* what listDocuments(W) with default arguments returns from the upstream
ListDocumentsDefault(W) ==
    LET v == ListDocumentsVars([workspaceId |-> W, limit |-> DefaultListLimit,
                                cursor |-> 0])
    IN  Range((CHOOSE d \in UpstreamData("docs", v) : TRUE).docs)

\* C7: searchDocuments with a blank query and workspace W issues exactly one call,
\* the document listing of W, and returns the documents listDocuments(W) returns
C7_BlankDegradesToListing ==
    (frame.fn = "searchDocuments" /\ BlankQuery(frame) /\ frame.workspaceId # Undefined)
        => /\ Len(calls) <= 1
           /\ Served =>
                 /\ Len(calls) = 1
                 /\ calls[1].op = "workspaceDocs"
                 /\ calls[1].vars = [workspaceId |-> frame.workspaceId]
                 /\ result.ok <=> calls[1].ok
                 /\ result.ok =>
                       /\ result.payload = "listing"
                       /\ Range(result.items) = ListDocumentsDefault(frame.workspaceId)

C7_Witness ==
    /\ Served
    /\ frame.fn = "searchDocuments"
    /\ BlankQuery(frame)
    /\ frame.workspaceId # Undefined
    /\ result.ok
    /\ Len(result.items) = MaxDocs

\* C8: every upstream call issued while resolving workspace/{w1} or
\* workspace/{w1}/docs carries w1, whatever the configured default workspace, and
\* the result holds data of w1 only
C8_ResolverWorkspaceIsolation ==
    WorkspaceResource =>
        LET w1 == req.uri.pathParts[1] IN
        /\ \A i \in 1..Len(calls) : calls[i].vars = [workspaceId |-> w1]
        /\ (Served /\ result.ok) =>
              /\ \A d \in Range(result.items) : d.ws = w1
              /\ result.payload \in {"workspaceInfo", "fallback"} => result.ws = w1

C8_Witness ==
    /\ Served
    /\ WorkspaceResource
    /\ workspaceId \notin {Undefined, req.uri.pathParts[1]}
    /\ result.ok
    /\ Len(result.items) > 0

\* C9: readResource of a uri whose scheme is not affine:, or whose collection is
\* neither workspace with an id nor search, fails with InvalidRequest and issues
\* no upstream call
C9_InvalidResourceRejected ==
    ( /\ req.kind = "readResource"
      /\ pc # "handleAFFiNEResource"
      /\ \/ req.uri.protocol \notin {"affine:", "none"}
         \/ /\ req.uri.valid
            /\ req.uri.protocol = "affine:"
            /\ ~ \/ req.uri.hostname = "workspace" /\ Len(req.uri.pathParts) > 0
                 \/ req.uri.hostname = "search" )
        => /\ Served
           /\ ~result.ok
           /\ result.error = McpError("InvalidRequest")
           /\ calls = <<>>

\* C10: the search resource with q absent or blank returns the usage payload with
\* no upstream call; with q non-blank it enumerates the workspaces and searches
\* each of them for q, whether or not a default workspace is configured
C10_SearchResource ==
    SearchResource =>
        LET q == IF Has(req.uri, "q") THEN [query |-> req.uri.q] ELSE EmptyArgs IN
        IF BlankQuery(q)
        THEN /\ calls = <<>>
             /\ Served => result.ok /\ result.payload = "usage"
        ELSE /\ \A i \in 1..Len(calls) :
                   IF i = 1 THEN calls[i].op = "workspaces"
                   ELSE /\ calls[1].ok
                        /\ calls[i].op = "searchDocs"
                        /\ calls[i].vars.workspaceId = calls[1].data.workspaces[i - 1]
                        /\ calls[i].vars.keyword = req.uri.q
             /\ Served =>
                   /\ Len(calls) >= 1
                   /\ calls[1].ok => Len(calls) = 1 + Len(calls[1].data.workspaces)
                   /\ calls[1].ok => result.ok /\ result.payload = "searchResource"

C10_Witness ==
    /\ Served
    /\ SearchResource
    /\ workspaceId # Undefined
    /\ Len(calls) = 3
    /\ result.ok
    /\ result.payload = "searchResource"
    /\ result.extra = "results"


C12_AdapterClassification ==
    pc = "adapterDone" =>
        LET r == frame.reply
            ok2xx == r.net /\ r.status >= 200 /\ r.status < 300
            parsed == ok2xx /\ r.body = "{json}" IN
        /\ result.ok => /\ parsed /\ ~r.hasErrors /\ r.data = "object"
                        /\ result.data = r.data
        /\ parsed /\ ~r.hasErrors /\ r.data = "object" => result.ok
        /\ ~result.ok =>
              /\ result.error.code = "InternalError"
              /\ result.error.wrappedBy = "none"
              /\ ~r.net => result.error.kind = "Transport"
              /\ r.net /\ ~ok2xx =>
                    /\ result.error.kind = "HttpStatus"
                    /\ result.message.status = r.status
                    /\ result.message.body = r.body
              /\ parsed /\ r.hasErrors /\ r.errors # <<>> =>
                    /\ result.error.kind = "ApplicationErrors"
                    /\ result.message.errors = r.errors
              /\ parsed /\ ~r.hasErrors => result.error.kind = "MalformedResponse"

C12_Witness ==
    /\ pc = "adapterDone"
    /\ frame.reply.net /\ frame.reply.status = 200 /\ frame.reply.body = "{json}"
    /\ frame.reply.hasErrors /\ frame.reply.errors = <<"e1", "e2">>
    /\ frame.reply.data = "object"
    /\ result.error.kind = "ApplicationErrors"




\* ---- C13
\* the served tool request failed with the error of one of its upstream calls
UpstreamFailure ==
    /\ Served /\ ToolRequest
    /\ ~result.ok
    /\ result.error.call > 0

\* the tools whose handler has a try/catch around its upstream call
RewrappingTools == WrappedTools \cup {"list_documents"}

LimitTakers == {"search_documents", "get_comments", "get_document_history",
                "advanced_search", "list_documents"}
DocumentedDefault(name) == IF name = "list_documents" THEN 50 ELSE 10

\* the served request called a limit-taking tool without a limit
NoLimitGiven ==
    /\ Served /\ ToolRequest /\ req.hasArgs
    /\ req.name \in LimitTakers
    /\ ~Has(req.args, "limit")

\* the values call c carries in a limit variable (limit, pagination.first, take)
LimitsOf(c) == { c.vars[k] : k \in DOMAIN c.vars \cap {"limit", "first", "take"} }

\* the calls of the request whose query declares a limit variable
LimitCalls ==
    { i \in 1..Len(calls) :
        calls[i].op \in {"searchDocs", "comments", "search", "histories", "docs"} }

\* C14 as stated: when a limit-taking tool is called without a limit, every call
\* that takes a limit variable carries the documented default, 10 or 50.
C14_DefaultLimitSent ==
    NoLimitGiven =>
        \A i \in LimitCalls : LimitsOf(calls[i]) = {DocumentedDefault(req.name)}

\* C14 amended: when a limit-taking tool is called without a limit, every call
\* that takes a limit variable carries one, a positive number: the documented
\* default, except in the search fan-out over n workspaces, where each
\* per-workspace search carries ceil(10 / n).
C14_DefaultLimitApplied ==
    NoLimitGiven =>
        \A i \in LimitCalls :
            /\ LimitsOf(calls[i]) \subseteq Nat \ {0}
            /\ LimitsOf(calls[i]) =
                  { IF FanOut
                    THEN LET n == Len(calls[1].data.workspaces) IN (10 + n - 1) \div n
                    ELSE DocumentedDefault(req.name) }

C14_Witness ==
    /\ NoLimitGiven
    /\ FanOut
    /\ Len(calls) = 3
    /\ LimitsOf(calls[2]) = {5}
    /\ LimitsOf(calls[3]) = {5}


\* ---- C15
\* the served request is list_documents called with an argument object
ServedListDocuments ==
    /\ Served /\ ToolRequest /\ req.hasArgs
    /\ req.name = "list_documents"

\* C15: a served list_documents issued one docs call that carries a continuation
\* token iff a cursor was given, and then the cursor itself; when it succeeds with
\* documents, they are the documents right after the cursor in upstream order,
\* and when the upstream reports a next page the result carries the upstream end
\* cursor, the position of the last document returned, so that passing it back
\* continues with the document after it.
C15_PaginationContinues ==
    ServedListDocuments =>
        LET cursor == IF Has(req.args, "cursor") THEN req.args.cursor ELSE 0 IN
        /\ Len(calls) = 1
        /\ calls[1].op = "docs"
        /\ Has(calls[1].vars, "after") <=> Has(req.args, "cursor")
        /\ Has(calls[1].vars, "after") => calls[1].vars.after = req.args.cursor
        /\ result.ok /\ result.payload = "documents" =>
              /\ \A k \in 1..Len(result.items) : result.items[k].n = cursor + k
              /\ result.extra.hasNextPage = calls[1].data.hasNextPage
              /\ result.extra.hasNextPage =>
                    /\ result.extra.endCursor = calls[1].data.endCursor
                    /\ result.extra.endCursor = cursor + Len(result.items)

\* the second page: the cursor is the end cursor of a first page of one document
C15_Witness ==
    /\ ServedListDocuments
    /\ Has(req.args, "cursor") /\ req.args.cursor = 1
    /\ Has(req.args, "limit") /\ req.args.limit = 1
    /\ result.ok
    /\ Len(result.items) = 1
    /\ result.items[1].n = 2


\* ---- C16
\* the served request is delete_blob called with an argument object
ServedDeleteBlob ==
    /\ Served /\ ToolRequest /\ req.hasArgs
    /\ req.name = "delete_blob"

\* C16: a served delete_blob issued exactly one deleteBlob mutation whose
\* permanently variable is the flag given, false when absent; it succeeded iff
\* the mutation did, whatever the flag, and for every reply the upstream can
\* give, the handler called with the flag true and with the flag false has the
\* same success or the same error.
C16_PermanentlyPassedThrough ==
    ServedDeleteBlob =>
        /\ Len(calls) = 1
        /\ calls[1].op = "deleteBlob"
        /\ calls[1].vars.workspaceId = EffectiveWs
        /\ calls[1].vars.permanently =
              (IF Has(req.args, "permanently") THEN req.args.permanently ELSE FALSE)
        /\ result.ok = calls[1].ok
        /\ \A r \in Outcomes(1, "deleteBlob", calls[1].vars) :
              LET soft == WrappedResult([frame EXCEPT !.permanently = FALSE], r)
                  hard == WrappedResult([frame EXCEPT !.permanently = TRUE], r) IN
              /\ soft.ok = r.ok /\ hard.ok = r.ok
              /\ soft.error = hard.error
              /\ soft.payload = hard.payload

C16_Witness ==
    /\ ServedDeleteBlob
    /\ Has(req.args, "permanently") /\ req.args.permanently
    /\ calls[1].vars.permanently
    /\ result.ok

\* ---- C17
\* the served request is the tool `name` called for the followed document
ServedForFollowed(name) ==
    /\ Served /\ ToolRequest /\ req.name = name
    /\ req.args.docId = FollowedDoc

\* C17: a served publish_document issued exactly one publishDoc mutation with
\* the given document id, the workspace id and the mode (Page when absent), a
\* served unpublish_document exactly one revokePublicDoc mutation with the
\* document and workspace ids; against the double, after a successful publish
\* the document is public in the mode asked for, after a successful unpublish it
\* is not public whatever was published before, and get_document reports the
\* public flag the upstream holds.
C17_PublishUnpublish ==
    /\ Served /\ ToolRequest /\ req.name = "publish_document" =>
          /\ Len(calls) = 1
          /\ calls[1].op = "publishDoc"
          /\ calls[1].vars =
                [docId |-> req.args.docId, workspaceId |-> EffectiveWs,
                 mode |-> IF Has(req.args, "mode") THEN req.args.mode ELSE "Page"]
    /\ Served /\ ToolRequest /\ req.name = "unpublish_document" =>
          /\ Len(calls) = 1
          /\ calls[1].op = "revokePublicDoc"
          /\ calls[1].vars = [docId |-> req.args.docId, workspaceId |-> EffectiveWs]
    /\ ServedForFollowed("publish_document") /\ result.ok =>
          /\ upDoc.public
          /\ upDoc.mode = calls[1].vars.mode
          /\ upDoc.last = "publishDoc"
    /\ ServedForFollowed("unpublish_document") /\ result.ok =>
          ~upDoc.public /\ upDoc.last = "revokePublicDoc"
    /\ ServedForFollowed("get_document") /\ result.ok =>
          /\ result.payload = "document"
          /\ result.extra.public = upDoc.public
          /\ upDoc.last = "revokePublicDoc" => ~result.extra.public

\* publish(Edgeless) then unpublish, then a metadata fetch that sees public = false
C17_Witness ==
    /\ ServedForFollowed("get_document")
    /\ result.ok
    /\ upDoc.mode = "Edgeless"
    /\ upDoc.last = "revokePublicDoc"
    /\ ~result.extra.public


\* ---- C18
\* the served request is get_document called with an argument object
ServedGetDocument ==
    /\ Served /\ ToolRequest /\ req.hasArgs
    /\ req.name = "get_document"

\* the metadata query succeeded and found the document
DocumentFound ==
    /\ Len(calls) >= 1
    /\ calls[1].op = "doc"
    /\ calls[1].ok
    /\ calls[1].data.doc.found

C19_MetadataSuccessNeverFails ==
    ServedGetDocument /\ calls[1].ok =>
        /\ result.ok
        /\ ~calls[1].data.doc.found => result.payload = "notFound"
        /\ calls[1].data.doc.found =>
              /\ result.payload = "document"
              /\ result.extra.content = "unavailable"
              /\ result.extra.hasTitle = calls[1].data.doc.hasTitle

C19_Witness ==
    /\ ServedGetDocument
    /\ DocumentFound
    /\ ~calls[1].data.doc.hasTitle
    /\ result.ok
    /\ result.payload = "document"
    /\ ~result.extra.hasTitle

\* ---- C20
CredentialAbsent == processEnv.AFFINE_ACCESS_TOKEN \in {Undefined, ""}

\* C20: if the access token is absent from the environment, the constructor is
\* either still at its first step or has thrown the missing-credential error, and
\* in both cases no request handler is registered, no upstream call has been
\* issued and the server is not connected.
C20_NoCredentialFailsFast ==
    CredentialAbsent =>
        /\ handlers = {}
        /\ calls = <<>>
        /\ ~connected
        /\ \/ pc = "constructor" /\ frame.step = 1 /\ result = NoResult
           \/ /\ pc = "crashed"
              /\ ~result.ok
              /\ result.error.code = "Error"
              /\ result.error.kind = "MissingCredential"

C20_Witness ==
    /\ processEnv.AFFINE_ACCESS_TOKEN = Undefined
    /\ pc = "crashed"
    /\ result.error.kind = "MissingCredential"


\* ---- C21
\* C21: the transport is connected only after the connectivity test succeeded,
\* a request is in service or served only on a connected server whose test
\* succeeded, and once the test has failed the transport is not connected, no
\* request has been taken and the process has ended with a non-zero status.
C21_ConnectivityBeforeServing ==
    /\ connected => checked = "ok"
    /\ req # NoReq => connected /\ checked = "ok"
    /\ pc \notin {"constructor", "crashed", "run", "exited"} => connected /\ checked = "ok"
    /\ checked = "failed" =>
          /\ ~connected
          /\ req = NoReq
          /\ pc = "exited"
          /\ Len(exitCode) = 1
          /\ exitCode[1] # 0

C21_Witness ==
    /\ checked = "failed"
    /\ pc = "exited"
    /\ Len(calls) = 1
    /\ calls[1].op = "currentUser"
    /\ ~calls[1].ok


\* ---- C22
\* the served request is search_documents with a non-blank query
ServedSearchTool ==
    /\ Served /\ ToolRequest /\ req.hasArgs
    /\ req.name = "search_documents"
    /\ ~BlankQuery(req.args)

\* C22: a served search_documents with a non-blank query and no workspaceId
\* argument enumerated the workspaces first and, if that succeeded, then issued
\* one search per enumerated workspace, whatever default workspace is configured.
C22_NoWorkspaceArgFansOut ==
    ServedSearchTool /\ ~Has(req.args, "workspaceId") =>
        /\ Len(calls) >= 1
        /\ calls[1].op = "workspaces"
        /\ calls[1].ok =>
              LET workspaces == calls[1].data.workspaces IN
              /\ Len(calls) = 1 + Len(workspaces)
              /\ \A i \in 1..Len(workspaces) :
                    /\ calls[i + 1].op = "searchDocs"
                    /\ calls[i + 1].vars.workspaceId = workspaces[i]

\* ---- C23
\* the number of documents in the groups of a fan-out result
RECURSIVE TotalHits(_)
TotalHits(groups) ==
    IF groups = <<>> THEN 0
    ELSE Len(groups[1].docs) + TotalHits(Tail(groups))

\* the number of results a successful search returned
ResultCount ==
    IF result.payload = "results" THEN TotalHits(result.items)
    ELSE Len(result.items)

\* C23: a served search_documents with a non-blank query that succeeded returned
\* at most `limit` results in total, 10 when no limit was given.
C23_AtMostLimitResults ==
    ServedSearchTool /\ result.ok =>
        ResultCount <= (IF Has(req.args, "limit") THEN req.args.limit ELSE 10)

\* ---- C24
\* C24: listTools advertises exactly the names toolHandlers defines; a served
\* callTool of an advertised name was not rejected as unknown, and a served
\* callTool of any other name was rejected as unknown without running anything.
C24_AdvertisedEqualsRouted ==
    /\ ListTools = toolHandlers
    /\ Served /\ ToolRequest /\ req.name \in ListTools =>
          result.ok \/ result.error.code # "MethodNotFound"
    /\ Served /\ ToolRequest /\ req.name \notin ListTools =>
          /\ ~result.ok
          /\ result.error.code = "MethodNotFound"
          /\ frame = NoFrame


\* ---- C25
\* C25: in the fan-out search the first call is the one workspace enumeration
\* and the calls after it are one search per enumerated workspace, in order,
\* each with the query as keyword and with the least limit l such that
\* l * n >= requested limit (n workspaces); a served fan-out has issued them all,
\* and with no workspace it issued no search and returned the zero-results payload.
C25_FanOutCalls ==
    FanOut =>
        LET workspaces == calls[1].data.workspaces
            n == Len(workspaces) IN
        /\ calls[1].op = "workspaces"
        /\ Len(calls) <= 1 + n
        /\ \A i \in 2..Len(calls) :
              /\ calls[i].op = "searchDocs"
              /\ calls[i].vars.workspaceId = workspaces[i - 1]
              /\ calls[i].vars.keyword = frame.query
              /\ calls[i].vars.limit * n >= frame.limit
              /\ (calls[i].vars.limit - 1) * n < frame.limit
        /\ Served =>
              /\ Len(calls) = 1 + n
              /\ n = 0 =>
                    /\ result.ok
                    /\ result.items = <<>>
                    /\ \/ result.payload = "noResults"
                       \/ result.payload = "searchResource" /\ result.extra = "noResults"

C25_Witness ==
    /\ Served
    /\ FanOut
    /\ ToolRequest
    /\ Len(calls) = 3
    /\ frame.limit = 1
    /\ calls[2].vars.limit = 1
    /\ calls[3].vars.limit = 1
    /\ calls[2].vars.workspaceId # calls[3].vars.workspaceId


\* ---- C26
\* the tools whose handler is a single upstream query or mutation
SingleCallTools ==
    {"list_workspaces", "get_workspace_info", "publish_document",
     "unpublish_document", "create_comment", "get_comments", "resolve_comment",
     "delete_comment", "advanced_search", "get_document_history", "list_blobs",
     "delete_blob", "list_documents"}

\* the request runs the handler of a single-call tool, or search_documents with
\* a workspace (its own argument or the configured default)
SingleCallInvocation ==
    /\ ToolRequest
    /\ \/ req.name \in SingleCallTools /\ (req.hasArgs \/ req.name = "list_workspaces")
       \/ req.name = "search_documents" /\ req.hasArgs /\ EffectiveWs # Undefined

\* C26: such an invocation never has more than one upstream call issued, and
\* once served it has issued exactly one and ended with a result if the call
\* succeeded and with that call's error if it failed.
C26_SingleUpstreamCall ==
    SingleCallInvocation =>
        /\ Len(calls) <= 1
        /\ Served =>
              /\ Len(calls) = 1
              /\ result.ok = calls[1].ok
              /\ ~result.ok => result.error.call = 1

C26_Witness ==
    /\ Served
    /\ SingleCallInvocation
    /\ req.name = "get_comments"
    /\ calls[1].op = "comments"
    /\ ~calls[1].ok
    /\ ~result.ok


\* ---- C27
\* the configuration is what validateEnvironment read from the environment
ConfigurationAsStarted ==
    /\ apiUrl = (IF processEnv.AFFINE_API_URL = Undefined
                 THEN "https://app.affine.pro" ELSE processEnv.AFFINE_API_URL)
    /\ accessToken = processEnv.AFFINE_ACCESS_TOKEN
    /\ workspaceId = processEnv.AFFINE_WORKSPACE_ID

\* C27: on the connected server the endpoint, the credential and the default
\* workspace id are those read at startup, and no step of any invocation
\* changes them, the environment or the registered handlers; between
\* invocations no request, handler frame or result is left over.
C27_ConfigurationImmutable ==
    /\ [](connected => ConfigurationAsStarted)
    /\ [](connected /\ pc = "idle" => req = NoReq /\ frame = NoFrame /\ result = NoResult)
    /\ [][connected =>
            /\ apiUrl' = apiUrl
            /\ accessToken' = accessToken
            /\ workspaceId' = workspaceId
            /\ processEnv' = processEnv
            /\ handlers' = handlers]_vars

\* a failed call for another workspace than the default has been served
C27_Witness ==
    /\ Served /\ ToolRequest /\ req.hasArgs
    /\ ~result.ok
    /\ Len(calls) >= 1
    /\ workspaceId # Undefined
    /\ Has(req.args, "workspaceId")
    /\ req.args.workspaceId # workspaceId
    /\ ConfigurationAsStarted


\* ---- C28
\* C28: after one adapter call, a resolved 2xx JSON reply whose errors member is
\* absent or an empty list and whose data is an object has made the adapter
\* return that data, and a failure classified as application errors comes from
\* a reply with at least one error and carries their messages in order.
C28_EmptyErrorsReturnData ==
    pc = "adapterDone" =>
        LET r == frame.reply
            parsed == r.net /\ r.status >= 200 /\ r.status < 300 /\ r.body = "{json}" IN
        /\ parsed /\ (~r.hasErrors \/ r.errors = <<>>) /\ r.data = "object" =>
              result.ok /\ result.data = r.data
        /\ ~result.ok /\ result.error.kind = "ApplicationErrors" =>
              /\ r.hasErrors
              /\ r.errors # <<>>
              /\ result.message.errors = r.errors


\* ---- C29
\* the request is readResource(affine://workspace/{id}/{x})
SubCollectionResource == WorkspaceResource /\ Len(req.uri.pathParts) = 2

\* the calls and the outcome of resolving the workspace detail of pathParts[0]:
\* the detail call, the listing iff it failed, the detail's error if both failed
ResolvedAsDetail ==
    LET v == [workspaceId |-> req.uri.pathParts[1]] IN
    /\ Len(calls) \in 1..2
    /\ calls[1].op = "workspace"
    /\ calls[1].vars = v
    /\ calls[1].ok =>
          /\ Len(calls) = 1
          /\ result = Ok("workspaceInfo", calls[1].data.id, <<>>, "")
    /\ ~calls[1].ok =>
          /\ Len(calls) = 2
          /\ calls[2].op = "workspaceDocs"
          /\ calls[2].vars = v
          /\ calls[2].ok =>
                /\ result.ok
                /\ result.payload = "fallback"
                /\ result.ws = req.uri.pathParts[1]
                /\ result.items = calls[2].data.docs
          /\ ~calls[2].ok =>
                /\ ~result.ok
                /\ result.error.call = 1
                /\ result.error.wrappedBy = "none"

\* the calls and the outcome of the fixed-size document listing, without fallback
ResolvedAsListing ==
    /\ Len(calls) = 1
    /\ calls[1].op = "workspaceDocs"
    /\ calls[1].vars = [workspaceId |-> req.uri.pathParts[1]]
    /\ result.ok <=> calls[1].ok
    /\ result.ok => result.payload = "docs" /\ result.items = calls[1].data.docs
    /\ ~result.ok => result.error.call = 1 /\ result.error.wrappedBy = "none"

\* C29: resolving workspace/{id}/{x} with x other than docs issues the calls and
\* yields the outcome of resolving workspace/{id} (detail, listing iff the detail
\* failed) and is never rejected as an invalid resource; x = docs alone selects
\* the single document listing, whose failure is thrown without fallback
C29_UnknownSubCollectionIgnored ==
    /\ (Served /\ WorkspaceDetailResource) => ResolvedAsDetail
    /\ (Served /\ SubCollectionResource) =>
          IF req.uri.pathParts[2] = "docs"
          THEN ResolvedAsListing
          ELSE /\ ResolvedAsDetail
               /\ result.error.code # "InvalidRequest"

C29_Witness ==
    /\ Served
    /\ SubCollectionResource
    /\ req.uri.pathParts[2] = "members"
    /\ Len(calls) = 2
    /\ ~calls[1].ok
    /\ calls[2].ok
    /\ result.payload = "fallback"


\* ---- C30
\* the request is listResources
ListingRequest == req.kind = "listResources"

\* readResource resolves the parsed uri: it is a URL of the affine: scheme that
\* names a workspace with an id, or the search collection
Resolvable(uri) ==
    /\ uri.valid
    /\ SchemeRecognised(uri)
    /\ \/ uri.hostname = "workspace" /\ Len(uri.pathParts) > 0
       \/ uri.hostname = "search"

\* the parsed form of every uri listResources can return
ListableUris ==
    UNION { {ParseUrl(l[i]) : i \in 1..Len(l)} :
              l \in {ListedResources(ws) : ws \in WsLists} }

\* C30: listResources issues exactly one call, the workspace enumeration, and
\* fails iff it fails; for n enumerated workspaces it returns 2n+1 resources,
\* workspace/{id} and workspace/{id}/docs of each in order and then search; every
\* uri returned parses to a uri readResource resolves, and readResource of such a
\* uri never ends with an invalid-resource or a parse error
C30_ListedResourcesReadable ==
    /\ (Served /\ ListingRequest) =>
          /\ Len(calls) = 1
          /\ calls[1].op = "workspaces"
          /\ result.ok <=> calls[1].ok
          /\ ~result.ok => result.error.call = 1 /\ result.error.wrappedBy = "none"
          /\ result.ok =>
                LET ws == calls[1].data.workspaces
                    n == Len(ws) IN
                /\ result.payload = "resources"
                /\ Len(result.items) = 2 * n + 1
                /\ \A k \in 1..n :
                      LET info == ParseUrl(result.items[2 * k - 1])
                          docs == ParseUrl(result.items[2 * k]) IN
                      /\ info.hostname = "workspace" /\ info.pathParts = <<ws[k]>>
                      /\ docs.hostname = "workspace" /\ docs.pathParts = <<ws[k], "docs">>
                /\ ParseUrl(result.items[2 * n + 1]).hostname = "search"
                /\ \A k \in 1..Len(result.items) :
                      /\ ParseUrl(result.items[k]) \in Uris
                      /\ Resolvable(ParseUrl(result.items[k]))
    /\ (Served /\ req.kind = "readResource" /\ req.uri \in ListableUris) =>
          result.error.code \notin {"InvalidRequest", "TypeError"}

C30_Witness ==
    /\ Served
    /\ ListingRequest
    /\ result.ok
    /\ Len(calls[1].data.workspaces) = MaxWs
    /\ Len(result.items) = 2 * MaxWs + 1
    /\ result.items[2 * MaxWs] = WorkspaceDocsUri(WsOrder[MaxWs])

\* readResource of a listed uri has been served
C30_WitnessRead ==
    /\ Served
    /\ req.kind = "readResource"
    /\ req.uri \in ListableUris
    /\ req.uri.pathParts = <<WsOrder[MaxWs], "docs">>
    /\ result.ok

============================================================================
